---- MODULE Spec2Model ----
(***************************************************************************)
(* The pgvector demo scripts as processes over one PostgreSQL database.    *)
(*                                                                         *)
(* Every script opens one psycopg2 connection.  psycopg2 starts a          *)
(* transaction at the first cur.execute() and ends it at conn.commit();    *)
(* a script that dies (an uncaught psycopg2 error, a kill) loses its       *)
(* connection and the server rolls the open transaction back.  The         *)
(* database runs at READ COMMITTED: a statement sees the rows committed    *)
(* when it starts, plus the rows of its own transaction.                   *)
(*                                                                         *)
(* Abstractions.  A vector is [len, head]: its length and its first three  *)
(* components scaled to integers, all further components being 0, so that  *)
(* dot products and norms are exact.  Float rounding is not modelled.      *)
(* The embedding models are fixed functions from text to vector.           *)
(* generate_demo_embeddings.py's batch_size (100) and total_docs (50000)   *)
(* are scaled down to BatchSize and NumBatches * BatchSize.                *)
(* demo.py is run from scripts/, where its relative script names resolve.  *)
(***************************************************************************)
EXTENDS Integers, Sequences, FiniteSets, TLC

(* ------------------------------ bounds --------------------------------- *)
\* texts a user types into one run of a seed script
MaxTexts == 2
\* script launches in one behaviour
MaxRuns == 2
\* queries typed into one run of scripts/search.py
MaxQueries == 1
\* stands for batch_size = 100 of generate_demo_embeddings.py
BatchSize == 2
\* stands for total_docs // batch_size = 500
NumBatches == 2
\* rows of the table a ranking is checked against
MaxRows == 6

(* ------------------------- program constants --------------------------- *)
\* LIMIT 5 of the search statement
Limit == 5
\* vector(384): the dimension of all-MiniLM-L6-v2
MiniLMDim == 384
\* vector(1024): the dimension of BAAI/bge-large-en-v1.5
BgeDim == 1024

(* ------------------------------ data ----------------------------------- *)
\* what a user types at an input() prompt
Texts == {"cat", "dog", "rocket"}

\* what generate_diverse_text() returns
FakerTexts == {"lorem"}

sentences ==
    << "The cat sits on the mat", "A dog runs on the grass",
       "I love eating pizza", "The pepperoni slice was tasty",
       "Stock market crashed today", "Investment banking is hard",
       "Planets orbit the sun" >>

\* the first three components of a text's embedding, times 10
Components(text) ==
    CASE text = "cat" -> <<10, 0, 0>>
      [] text = "dog" -> <<9, 1, 0>>
      [] text = "rocket" -> <<0, 0, 10>>
      [] text = "The cat sits on the mat" -> <<9, 2, 0>>
      [] text = "A dog runs on the grass" -> <<8, 3, 0>>
      [] text = "I love eating pizza" -> <<0, 9, 2>>
      [] text = "The pepperoni slice was tasty" -> <<1, 8, 3>>
      [] text = "Stock market crashed today" -> <<0, 1, 9>>
      [] text = "Investment banking is hard" -> <<1, 0, 8>>
      [] text = "Planets orbit the sun" -> <<-3, -3, -3>>
      [] OTHER -> <<1, 1, 1>>

\* model.encode(text).tolist() for SentenceTransformer(name)
encode(name, text) ==
    [len |-> IF name = "BAAI/bge-large-en-v1.5" THEN BgeDim ELSE MiniLMDim,
     head |-> Components(text)]

Scripts ==
    {"embed_demo", "scripts_seed", "scripts_search", "seed", "search",
     "generate", "compare"}

\* the table a script's statements name
TableOf(p) ==
    CASE p \in {"embed_demo", "seed", "search"} -> "documents"
      [] p \in {"scripts_seed", "scripts_search"} -> "demo"
      [] OTHER -> "docs"

\* the SentenceTransformer a script loads
ModelOf(p) ==
    IF p = "generate" THEN "BAAI/bge-large-en-v1.5" ELSE "all-MiniLM-L6-v2"

Tables == {"documents", "demo", "docs"}

\* demo.py's dispatch table
commands ==
    [setup |-> "embed_demo", seed |-> "scripts_seed",
     compare |-> "compare", search |-> "scripts_search"]

SeqsUpTo(S, n) == UNION {[1..k -> S] : k \in 0..n}

Range(s) == {s[i] : i \in DOMAIN s}

Min(a, b) == IF a <= b THEN a ELSE b

(* ------------------ the distance operator and ORDER BY ----------------- *)
Dot(a, b) == a.head[1] * b.head[1] + a.head[2] * b.head[2] + a.head[3] * b.head[3]

Norm2(a) == Dot(a, a)

SgnSq(x) == IF x >= 0 THEN x * x ELSE -(x * x)

\* (a <=> q) < (b <=> q) for cosine distance 1 - dot/(|a||q|), by
\* cross-multiplying the squared similarities (no vector here has norm 0)
Closer(q, a, b) == SgnSq(Dot(q, a)) * Norm2(b) > SgnSq(Dot(q, b)) * Norm2(a)

\* (a <=> q) = 0
ZeroDistance(q, a) == Dot(q, a) > 0 /\ Dot(q, a) * Dot(q, a) = Norm2(q) * Norm2(a)

\* a faulty variant of Nearest: the sort key is ignored
NearestUnsorted(S, q) == S

\* the rows ORDER BY embedding <=> q may put first: no row of S is closer
Nearest(S, q) == {r \in S : \A o \in S : ~Closer(q, o.embedding, r.embedding)}

\* every row sequence SELECT ... ORDER BY embedding <=> q LIMIT k may return:
\* SQL leaves the order of rows with equal sort keys open
RECURSIVE OrderByLimit(_, _, _)
OrderByLimit(S, q, k) ==
    IF k = 0 \/ S = {} THEN {<< >>}
    ELSE UNION {{<<r>> \o s : s \in OrderByLimit(S \ {r}, q, k - 1)} :
                    r \in Nearest(S, q)}

(* ------------------------------ state ---------------------------------- *)
VARIABLES
    tables,     \* committed state: table name -> [exists, dim, rows, seq]
    nextXid,    \* the next transaction id
    committed,  \* the ids of committed transactions
    pc,         \* script -> where it is
    xid,        \* script -> its open transaction's id, 0 before its first write
    pend,       \* script -> rows inserted and not yet committed
    priv,       \* script -> uncommitted DDL: [dropped, tab]
    lock,       \* script -> the table lock its transaction holds
    err,        \* script -> the error that ended it
    mem,        \* script -> its Python variables
    runs,       \* script launches so far
    argv        \* demo.py's last argument

vars == <<tables, nextXid, committed, pc, xid, pend, priv, lock, err, mem, runs, argv>>

NoTable == [exists |-> FALSE, dim |-> 0, rows |-> {}, seq |-> 0]

NoPriv == [dropped |-> FALSE, tab |-> NoTable]

\* a process's variables before its first statement
EmptyMem ==
    [texts |-> << >>, idx |-> 1, query |-> "", result |-> << >>, count |-> 0,
     batch_num |-> 0]

Stopped == {"idle", "done", "failed", "killed"}

\* what another session's statement sees of table t
Visible(t) == tables[t].rows

\* the table as the statements of p's own transaction see it
View(p) ==
    IF priv[p].tab.exists THEN priv[p].tab
    ELSE IF priv[p].dropped THEN NoTable
    ELSE [tables[TableOf(p)] EXCEPT !.rows = @ \cup pend[p]]

\* p's statement waits for a conflicting table lock of another session
Blocked(p, mode) ==
    \E q \in Scripts \ {p} :
        /\ TableOf(q) = TableOf(p)
        /\ lock[q] # "none"
        /\ (mode = "AccessExclusive" \/ lock[q] = "AccessExclusive")

Stronger(held, mode) ==
    IF held = "AccessExclusive" \/ mode = "AccessExclusive" THEN "AccessExclusive"
    ELSE IF held = "RowExclusive" \/ mode = "RowExclusive" THEN "RowExclusive"
    ELSE mode

XidOf(p) == IF xid[p] = 0 THEN nextXid ELSE xid[p]

\* the process ends in state s: its open transaction is rolled back and its
\* variables are gone
Abort(p, s, e) ==
    /\ pc' = [pc EXCEPT ![p] = s]
    /\ err' = [err EXCEPT ![p] = e]
    /\ pend' = [pend EXCEPT ![p] = {}]
    /\ priv' = [priv EXCEPT ![p] = NoPriv]
    /\ lock' = [lock EXCEPT ![p] = "none"]
    /\ xid' = [xid EXCEPT ![p] = 0]
    /\ mem' = [mem EXCEPT ![p] = EmptyMem]
    /\ UNCHANGED <<tables, nextXid, committed, runs, argv>>

\* an uncaught psycopg2 error
Raise(p, e) == Abort(p, "failed", e)

\* the statement succeeds: the script goes on at next with variables m
Goes(p, next, m) ==
    /\ pc' = [pc EXCEPT ![p] = next]
    /\ mem' = [mem EXCEPT ![p] = m]
    /\ UNCHANGED <<err, runs, argv>>

Assign(p) ==
    /\ xid' = [xid EXCEPT ![p] = XidOf(p)]
    /\ nextXid' = IF xid[p] = 0 THEN nextXid + 1 ELSE nextXid

(* --------------------------- SQL statements ---------------------------- *)
\* a faulty variant of ExecInsert: the row is committed by the statement itself
ExecInsertAutocommit(p, content, vec, next, m) ==
    LET t == TableOf(p)
        v == View(p)
        row == [id |-> v.seq + 1, content |-> content, embedding |-> vec,
                xmin |-> XidOf(p)]
    IN  IF ~v.exists THEN Raise(p, "UndefinedTable")
        ELSE IF vec.len # v.dim THEN Raise(p, "DimensionMismatch")
        ELSE /\ ~Blocked(p, "RowExclusive")
             /\ tables' = [tables EXCEPT ![t].seq = @ + 1, ![t].rows = @ \cup {row}]
             /\ Assign(p)
             /\ Goes(p, next, m)
             /\ UNCHANGED <<pend, priv, lock, committed>>

\* a faulty variant of ExecInsert: the declared dimension is not enforced
ExecInsertAnyDim(p, content, vec, next, m) ==
    LET t == TableOf(p)
        v == View(p)
        row == [id |-> v.seq + 1, content |-> content, embedding |-> vec,
                xmin |-> XidOf(p)]
    IN  IF ~v.exists THEN Raise(p, "UndefinedTable")
        ELSE /\ ~Blocked(p, "RowExclusive")
             /\ tables' = [tables EXCEPT ![t].seq = @ + 1]
             /\ pend' = [pend EXCEPT ![p] = @ \cup {row}]
             /\ Assign(p)
             /\ lock' = [lock EXCEPT ![p] = Stronger(@, "RowExclusive")]
             /\ Goes(p, next, m)
             /\ UNCHANGED <<priv, committed>>

\* a faulty variant of ExecInsert: the id is the number of rows in sight plus one
ExecInsertCountId(p, content, vec, next, m) ==
    LET t == TableOf(p)
        v == View(p)
        row == [id |-> Cardinality(v.rows) + 1, content |-> content,
                embedding |-> vec, xmin |-> XidOf(p)]
    IN  IF ~v.exists THEN Raise(p, "UndefinedTable")
        ELSE IF vec.len # v.dim THEN Raise(p, "DimensionMismatch")
        ELSE /\ ~Blocked(p, "RowExclusive")
             /\ IF priv[p].tab.exists
                THEN /\ priv' = [priv EXCEPT ![p].tab.rows = @ \cup {row},
                                             ![p].tab.seq = @ + 1]
                     /\ UNCHANGED <<tables, pend>>
                ELSE /\ tables' = [tables EXCEPT ![t].seq = @ + 1]
                     /\ pend' = [pend EXCEPT ![p] = @ \cup {row}]
                     /\ UNCHANGED priv
             /\ Assign(p)
             /\ lock' = [lock EXCEPT ![p] = Stronger(@, "RowExclusive")]
             /\ Goes(p, next, m)
             /\ UNCHANGED committed

\* INSERT INTO t (content, embedding) VALUES (%s, %s).  The id is
\* nextval() of the serial column's sequence, which is never rolled back;
\* the row stays private to the transaction.  A missing table and a vector
\* of the wrong length are rejected before nextval() is called.
ExecInsert(p, content, vec, next, m) ==
    LET t == TableOf(p)
        v == View(p)
        row == [id |-> v.seq + 1, content |-> content, embedding |-> vec,
                xmin |-> XidOf(p)]
    IN  IF ~v.exists THEN Raise(p, "UndefinedTable")
        ELSE IF vec.len # v.dim THEN Raise(p, "DimensionMismatch")
        ELSE /\ ~Blocked(p, "RowExclusive")
             /\ IF priv[p].tab.exists
                THEN /\ priv' = [priv EXCEPT ![p].tab.rows = @ \cup {row},
                                             ![p].tab.seq = @ + 1]
                     /\ UNCHANGED <<tables, pend>>
                ELSE /\ tables' = [tables EXCEPT ![t].seq = @ + 1]
                     /\ pend' = [pend EXCEPT ![p] = @ \cup {row}]
                     /\ UNCHANGED priv
             /\ Assign(p)
             /\ lock' = [lock EXCEPT ![p] = Stronger(@, "RowExclusive")]
             /\ Goes(p, next, m)
             /\ UNCHANGED committed

\* DROP TABLE IF EXISTS t: takes the table's exclusive lock; the drop is
\* private to the transaction until it commits
ExecDrop(p, next) ==
    /\ IF ~View(p).exists
       THEN UNCHANGED <<priv, lock, xid, nextXid>>
       ELSE /\ ~Blocked(p, "AccessExclusive")
            /\ Assign(p)
            /\ IF priv[p].tab.exists
               THEN /\ priv' = [priv EXCEPT ![p].tab = NoTable]
                    /\ UNCHANGED lock
               ELSE /\ priv' = [priv EXCEPT ![p].dropped = TRUE]
                    /\ lock' = [lock EXCEPT ![p] = "AccessExclusive"]
    /\ Goes(p, next, mem[p])
    /\ UNCHANGED <<tables, pend, committed>>

\* CREATE TABLE [IF NOT EXISTS] t (id serial PRIMARY KEY, content text,
\* embedding vector(d)): a new table with a new sequence, private to the
\* transaction until it commits
ExecCreate(p, d, ifNotExists, next) ==
    IF View(p).exists
    THEN IF ifNotExists
         THEN /\ Goes(p, next, mem[p])
              /\ UNCHANGED <<tables, nextXid, committed, xid, pend, priv, lock>>
         ELSE Raise(p, "DuplicateTable")
    ELSE /\ priv' = [priv EXCEPT ![p].tab =
                        [exists |-> TRUE, dim |-> d, rows |-> {}, seq |-> 0]]
         /\ Assign(p)
         /\ Goes(p, next, mem[p])
         /\ UNCHANGED <<tables, pend, lock, committed>>

\* a faulty variant of ExecCommit: the last inserted row is lost
ExecCommitLossy(p, next, m) ==
    LET t == TableOf(p)
        keep == {r \in pend[p] : \E o \in pend[p] : o.id > r.id}
    IN  /\ tables' = [tables EXCEPT ![t] =
               IF priv[p].tab.exists THEN priv[p].tab
               ELSE IF priv[p].dropped THEN NoTable
               ELSE [@ EXCEPT !.rows = @ \cup keep]]
        /\ committed' = IF xid[p] = 0 THEN committed ELSE committed \cup {xid[p]}
        /\ xid' = [xid EXCEPT ![p] = 0]
        /\ pend' = [pend EXCEPT ![p] = {}]
        /\ priv' = [priv EXCEPT ![p] = NoPriv]
        /\ lock' = [lock EXCEPT ![p] = "none"]
        /\ Goes(p, next, m)
        /\ UNCHANGED nextXid

\* conn.commit(): everything the transaction did becomes visible at once
ExecCommit(p, next, m) ==
    LET t == TableOf(p)
    IN  /\ tables' = [tables EXCEPT ![t] =
               IF priv[p].tab.exists THEN priv[p].tab
               ELSE IF priv[p].dropped THEN NoTable
               ELSE [@ EXCEPT !.rows = @ \cup pend[p]]]
        /\ committed' = IF xid[p] = 0 THEN committed ELSE committed \cup {xid[p]}
        /\ xid' = [xid EXCEPT ![p] = 0]
        /\ pend' = [pend EXCEPT ![p] = {}]
        /\ priv' = [priv EXCEPT ![p] = NoPriv]
        /\ lock' = [lock EXCEPT ![p] = "none"]
        /\ Goes(p, next, m)
        /\ UNCHANGED nextXid

\* a faulty variant of ExecSelect: the statement also reads uncommitted rows
ExecSelectDirty(p, q, next) ==
    LET v == View(p)
        all == v.rows \cup UNION {pend[o] : o \in {s \in Scripts : TableOf(s) = TableOf(p)}}
    IN  /\ ~Blocked(p, "AccessShare")
        /\ IF ~v.exists THEN Raise(p, "UndefinedTable")
           ELSE IF all # {} /\ q.len # v.dim THEN Raise(p, "DimensionMismatch")
           ELSE /\ \E res \in OrderByLimit(all, q, Limit) :
                       Goes(p, next, [mem[p] EXCEPT !.result = res])
                /\ lock' = [lock EXCEPT ![p] = Stronger(@, "AccessShare")]
                /\ UNCHANGED <<tables, nextXid, committed, xid, pend, priv>>

\* SELECT content, 1 - (embedding <=> q) FROM t ORDER BY embedding <=> q
\* LIMIT 5, and the cursor's rows.  The statement reads one snapshot.  The
\* operator <=> raises on vectors of different lengths, once it is applied
\* to a row.
ExecSelect(p, q, next) ==
    LET v == View(p)
    IN  /\ ~Blocked(p, "AccessShare")
        /\ IF ~v.exists THEN Raise(p, "UndefinedTable")
           ELSE IF v.rows # {} /\ q.len # v.dim THEN Raise(p, "DimensionMismatch")
           ELSE /\ \E res \in OrderByLimit(v.rows, q, Limit) :
                       Goes(p, next, [mem[p] EXCEPT !.result = res])
                /\ lock' = [lock EXCEPT ![p] = Stronger(@, "AccessShare")]
                /\ UNCHANGED <<tables, nextXid, committed, xid, pend, priv>>

\* a step of the script that runs no statement
Step(p, next, m) ==
    /\ Goes(p, next, m)
    /\ UNCHANGED <<tables, nextXid, committed, xid, pend, priv, lock>>

\* the process ends: conn.close(), or the interpreter exits
Exit(p) == Abort(p, "done", "none")

(* ------------------------- launching and dying ------------------------- *)
\* python <script>: a fresh process at its first statement
Launch(p, first) ==
    /\ pc[p] \in Stopped
    /\ runs < MaxRuns
    /\ pc' = [pc EXCEPT ![p] = first]
    /\ err' = [err EXCEPT ![p] = "none"]
    /\ runs' = runs + 1
    /\ UNCHANGED <<tables, nextXid, committed, xid, pend, priv, lock, mem>>

First(p) ==
    CASE p \in {"embed_demo", "generate"} -> "drop"
      [] p = "scripts_seed" -> "create"
      [] OTHER -> "input"

\* the process is killed at any point; its connection is lost
Kill(p) ==
    /\ pc[p] \notin Stopped
    /\ Abort(p, "killed", "none")

(* --------------------------- scripts/demo.py --------------------------- *)
\* python demo.py <arg>, typed when the previous command has returned:
\* subprocess.run waits for the script it starts
Demo(arg) ==
    /\ \A q \in Scripts : pc[q] \in Stopped
    /\ argv' = arg
    /\ IF arg \in DOMAIN commands
       THEN Launch(commands[arg], First(commands[arg]))
       ELSE UNCHANGED <<tables, nextXid, committed, pc, xid, pend, priv, lock,
                        err, mem, runs>>

(* ------------------------ scripts/embed_demo.py ------------------------ *)
EmbedDemo_Start == Launch("embed_demo", "drop") /\ UNCHANGED argv

EmbedDemo_Drop ==
    /\ pc["embed_demo"] = "drop"
    /\ ExecDrop("embed_demo", "create")

EmbedDemo_Create ==
    /\ pc["embed_demo"] = "create"
    /\ ExecCreate("embed_demo", MiniLMDim, FALSE, "insert")

EmbedDemo_Insert ==
    LET p == "embed_demo"
        i == mem[p].idx
    IN  /\ pc[p] = "insert"
        /\ ExecInsert(p, sentences[i], encode(ModelOf(p), sentences[i]),
                      IF i = Len(sentences) THEN "commit" ELSE "insert",
                      [mem[p] EXCEPT !.idx = i + 1])

EmbedDemo_Commit ==
    /\ pc["embed_demo"] = "commit"
    /\ ExecCommit("embed_demo", "exit", mem["embed_demo"])

EmbedDemo_Exit ==
    /\ pc["embed_demo"] = "exit"
    /\ Exit("embed_demo")

(* ----------------------------- src/seed.py ----------------------------- *)
Seed_Start == Launch("seed", "input") /\ UNCHANGED argv

\* the input loop: the texts typed before the empty line
Seed_Input ==
    LET p == "seed"
    IN  /\ pc[p] = "input"
        /\ \E ts \in SeqsUpTo(Texts, MaxTexts) :
              Step(p, IF ts = << >> THEN "close" ELSE "insert",
                   [mem[p] EXCEPT !.texts = ts])

Seed_Insert ==
    LET p == "seed"
        i == mem[p].idx
        text == mem[p].texts[i]
    IN  /\ pc[p] = "insert"
        /\ ExecInsert(p, text, encode(ModelOf(p), text),
                      IF i = Len(mem[p].texts) THEN "commit" ELSE "insert",
                      [mem[p] EXCEPT !.idx = i + 1])

Seed_Commit ==
    /\ pc["seed"] = "commit"
    /\ ExecCommit("seed", "close", mem["seed"])

Seed_Close ==
    /\ pc["seed"] = "close"
    /\ Exit("seed")

(* --------------------------- scripts/seed.py --------------------------- *)
ScriptsSeed_Start == Launch("scripts_seed", "create") /\ UNCHANGED argv

ScriptsSeed_Create ==
    /\ pc["scripts_seed"] = "create"
    /\ ExecCreate("scripts_seed", MiniLMDim, TRUE, "commit0")

ScriptsSeed_Commit0 ==
    /\ pc["scripts_seed"] = "commit0"
    /\ ExecCommit("scripts_seed", "input", mem["scripts_seed"])

\* text = input("> "): a text, or the empty line that ends the loop
ScriptsSeed_Input ==
    LET p == "scripts_seed"
    IN  /\ pc[p] = "input"
        /\ \E text \in Texts \cup {""} :
              /\ text # "" => mem[p].count < MaxTexts
              /\ IF text = "" THEN Step(p, "close", mem[p])
                 ELSE Step(p, "insert", [mem[p] EXCEPT !.texts = <<text>>])

ScriptsSeed_Insert ==
    LET p == "scripts_seed"
        text == mem[p].texts[1]
    IN  /\ pc[p] = "insert"
        /\ ExecInsert(p, text, encode(ModelOf(p), text), "commit", mem[p])

ScriptsSeed_Commit ==
    LET p == "scripts_seed"
    IN  /\ pc[p] = "commit"
        /\ ExecCommit(p, "input", [mem[p] EXCEPT !.count = @ + 1])

ScriptsSeed_Close ==
    /\ pc["scripts_seed"] = "close"
    /\ Exit("scripts_seed")

(* ------------------ scripts/generate_demo_embeddings.py ---------------- *)
batch_size == BatchSize

total_docs == NumBatches * BatchSize

batches == total_docs \div batch_size

Generate_Start == Launch("generate", "drop") /\ UNCHANGED argv

Generate_Drop ==
    /\ pc["generate"] = "drop"
    /\ ExecDrop("generate", "create")

Generate_Create ==
    /\ pc["generate"] = "create"
    /\ ExecCreate("generate", BgeDim, FALSE, "commit0")

Generate_Commit0 ==
    /\ pc["generate"] = "commit0"
    /\ ExecCommit("generate", "texts", mem["generate"])

\* the head of the batch loop: batch_size texts, or the loop's end and the
\* success message
Generate_Texts ==
    LET p == "generate"
    IN  /\ pc[p] = "texts"
        /\ IF mem[p].batch_num < batches
           THEN \E ts \in [1..batch_size -> FakerTexts] :
                   Step(p, "insert", [mem[p] EXCEPT !.texts = ts, !.idx = 1])
           ELSE Step(p, "success", mem[p])

Generate_Insert ==
    LET p == "generate"
        i == mem[p].idx
        text == mem[p].texts[i]
    IN  /\ pc[p] = "insert"
        /\ ExecInsert(p, text, encode(ModelOf(p), text),
                      IF i = Len(mem[p].texts) THEN "commit" ELSE "insert",
                      [mem[p] EXCEPT !.idx = i + 1])

Generate_Commit ==
    LET p == "generate"
    IN  /\ pc[p] = "commit"
        /\ ExecCommit(p, "texts", [mem[p] EXCEPT !.batch_num = @ + 1])

\* SELECT COUNT(*) FROM docs, after the success message
Generate_Count ==
    LET p == "generate"
    IN  /\ pc[p] = "success"
        /\ ~Blocked(p, "AccessShare")
        /\ IF ~View(p).exists THEN Raise(p, "UndefinedTable")
           ELSE /\ Goes(p, "close", [mem[p] EXCEPT !.count = Cardinality(View(p).rows)])
                /\ lock' = [lock EXCEPT ![p] = Stronger(@, "AccessShare")]
                /\ UNCHANGED <<tables, nextXid, committed, xid, pend, priv>>

Generate_Close ==
    /\ pc["generate"] = "close"
    /\ Exit("generate")

(* ---------------------------- src/search.py ---------------------------- *)
Search_Start == Launch("search", "input") /\ UNCHANGED argv

Search_Input ==
    LET p == "search"
    IN  /\ pc[p] = "input"
        /\ \E text \in Texts : Step(p, "execute", [mem[p] EXCEPT !.query = text])

Search_Execute ==
    LET p == "search"
    IN  /\ pc[p] = "execute"
        /\ ExecSelect(p, encode(ModelOf(p), mem[p].query), "print")

\* cur.fetchall() empties the cursor; the matches are printed
Search_Print ==
    /\ pc["search"] = "print"
    /\ Step("search", "close", [mem["search"] EXCEPT !.result = << >>])

Search_Close ==
    /\ pc["search"] = "close"
    /\ Exit("search")

(* -------------------------- scripts/search.py -------------------------- *)
ScriptsSearch_Start == Launch("scripts_search", "input") /\ UNCHANGED argv

\* query = input(...): a text, or 'q'
ScriptsSearch_Input ==
    LET p == "scripts_search"
    IN  /\ pc[p] = "input"
        /\ \E text \in Texts \cup {"q"} :
              /\ text # "q" => mem[p].count < MaxQueries
              /\ Step(p, IF text = "q" THEN "close" ELSE "execute",
                      [mem[p] EXCEPT !.query = text])

ScriptsSearch_Execute ==
    LET p == "scripts_search"
    IN  /\ pc[p] = "execute"
        /\ ExecSelect(p, encode(ModelOf(p), mem[p].query), "print")

\* cur.fetchall() empties the cursor; the matches are printed and the loop
\* goes on
ScriptsSearch_Print ==
    LET p == "scripts_search"
    IN  /\ pc[p] = "print"
        /\ Step(p, "input", [mem[p] EXCEPT !.result = << >>, !.count = @ + 1])

ScriptsSearch_Close ==
    /\ pc["scripts_search"] = "close"
    /\ Exit("scripts_search")

(* -------------------------- scripts/compare.py ------------------------- *)
\* the two texts are read and their similarity printed, or 'q' ends the loop
Compare_Input ==
    LET p == "compare"
    IN  /\ pc[p] = "input"
        /\ \E t1 \in Texts \cup {"q"}, t2 \in Texts :
              IF t1 = "q" THEN Exit(p)
              ELSE Step(p, "input", [mem[p] EXCEPT !.texts = <<t1, t2>>])

(* --------------------------- specifications ---------------------------- *)
EmptyDb == [t \in Tables |-> NoTable]

InitLocal ==
    /\ pc = [p \in Scripts |-> "idle"]
    /\ xid = [p \in Scripts |-> 0]
    /\ pend = [p \in Scripts |-> {}]
    /\ priv = [p \in Scripts |-> NoPriv]
    /\ lock = [p \in Scripts |-> "none"]
    /\ err = [p \in Scripts |-> "none"]
    /\ mem = [p \in Scripts |-> EmptyMem]
    /\ runs = 0
    /\ argv = ""

\* a fresh database
Init ==
    /\ tables = EmptyDb
    /\ nextXid = 1
    /\ committed = {}
    /\ InitLocal

EmbedDemo ==
    \/ EmbedDemo_Drop
    \/ EmbedDemo_Create
    \/ EmbedDemo_Insert
    \/ EmbedDemo_Commit
    \/ EmbedDemo_Exit

Seed ==
    \/ Seed_Input
    \/ Seed_Insert
    \/ Seed_Commit
    \/ Seed_Close

ScriptsSeed ==
    \/ ScriptsSeed_Create
    \/ ScriptsSeed_Commit0
    \/ ScriptsSeed_Input
    \/ ScriptsSeed_Insert
    \/ ScriptsSeed_Commit
    \/ ScriptsSeed_Close

Generate ==
    \/ Generate_Drop
    \/ Generate_Create
    \/ Generate_Commit0
    \/ Generate_Texts
    \/ Generate_Insert
    \/ Generate_Commit
    \/ Generate_Count
    \/ Generate_Close

Search ==
    \/ Search_Input
    \/ Search_Execute
    \/ Search_Print
    \/ Search_Close

ScriptsSearch ==
    \/ ScriptsSearch_Input
    \/ ScriptsSearch_Execute
    \/ ScriptsSearch_Print
    \/ ScriptsSearch_Close

\* the batch writers, run from separate terminals
Next ==
    \/ EmbedDemo_Start
    \/ Seed_Start
    \/ Generate_Start
    \/ EmbedDemo
    \/ Seed
    \/ Generate
    \/ \E p \in {"embed_demo", "seed", "generate"} : Kill(p)

Spec == Init /\ [][Next]_vars

\* scripts/seed.py and scripts/search.py on table demo
NextDemoTable ==
    \/ ScriptsSeed_Start
    \/ ScriptsSearch_Start
    \/ ScriptsSeed
    \/ ScriptsSearch
    \/ \E p \in {"scripts_seed", "scripts_search"} : Kill(p)

SpecDemoTable == Init /\ [][NextDemoTable]_vars

NextGenerate ==
    \/ Generate_Start
    \/ Generate
    \/ Kill("generate")

SpecGenerate == Init /\ [][NextGenerate]_vars

\* python demo.py <arg>, one command after the other
NextDemo ==
    \/ \E arg \in {"setup", "seed", "compare", "search", "help"} : Demo(arg)
    \/ EmbedDemo
    \/ ScriptsSeed
    \/ ScriptsSearch
    \/ Compare_Input
    \/ \E p \in {"embed_demo", "scripts_seed", "scripts_search", "compare"} : Kill(p)

SpecDemo == Init /\ [][NextDemo]_vars

\* table demo after scripts/seed.py has added the texts ts, one commit each,
\* which leaves one launch
Seeded(ts) ==
    [exists |-> TRUE, dim |-> MiniLMDim, seq |-> Len(ts),
     rows |-> {[id |-> i, content |-> ts[i],
                embedding |-> encode("all-MiniLM-L6-v2", ts[i]), xmin |-> i + 1] :
                  i \in DOMAIN ts}]

InitRank ==
    /\ \E ts \in SeqsUpTo(Texts, MaxRows) :
          /\ tables = [EmptyDb EXCEPT !["demo"] = Seeded(ts)]
          /\ nextXid = Len(ts) + 2
          /\ committed = 1..(Len(ts) + 1)
    /\ pc = [p \in Scripts |-> IF p = "scripts_seed" THEN "done" ELSE "idle"]
    /\ xid = [p \in Scripts |-> 0]
    /\ pend = [p \in Scripts |-> {}]
    /\ priv = [p \in Scripts |-> NoPriv]
    /\ lock = [p \in Scripts |-> "none"]
    /\ err = [p \in Scripts |-> "none"]
    /\ mem = [p \in Scripts |-> EmptyMem]
    /\ runs = MaxRuns - 1
    /\ argv = ""

\* scripts/search.py against a seeded table
NextRank ==
    \/ ScriptsSearch_Start
    \/ ScriptsSearch

SpecRank == InitRank /\ [][NextRank]_vars

(* ------------------------------ ranking -------------------------------- *)
SameDistance(q, a, b) == ~Closer(q, a, b) /\ ~Closer(q, b, a)

Printing(p) == pc[p] = "print"

QueryVector(p) == encode(ModelOf(p), mem[p].query)

\* C5: a search over n visible rows returns min(5, n) rows, in non-decreasing
\* order of distance to the query vector, and no row left out is closer than
\* a row returned
C5_TopK ==
    LET p == "scripts_search"
        res == mem[p].result
        q == QueryVector(p)
        rows == Visible(TableOf(p))
    IN  Printing(p) =>
          /\ Len(res) = Min(Limit, Cardinality(rows))
          /\ Range(res) \subseteq rows
          /\ Cardinality(Range(res)) = Len(res)
          /\ \A i, j \in DOMAIN res :
                i < j => ~Closer(q, res[j].embedding, res[i].embedding)
          /\ \A r \in rows \ Range(res) : \A i \in DOMAIN res :
                ~Closer(q, r.embedding, res[i].embedding)

\* the limit cuts rows off, and the rows returned lie at different distances
C5_Witness ==
    LET p == "scripts_search"
        res == mem[p].result
    IN  /\ Printing(p)
        /\ Cardinality(Visible(TableOf(p))) > Limit
        /\ Len(res) = Limit
        /\ Closer(QueryVector(p), res[1].embedding, res[Limit].embedding)

\* C6: rows at the same distance are listed in ascending id order, and of
\* tied rows the limit cuts off those with the larger ids, so that the result
\* is a function of the table and the query
C6_TiesByAscendingId ==
    LET p == "scripts_search"
        res == mem[p].result
        q == QueryVector(p)
        rows == Visible(TableOf(p))
    IN  Printing(p) =>
          /\ \A i, j \in DOMAIN res :
                i < j /\ SameDistance(q, res[i].embedding, res[j].embedding)
                    => res[i].id < res[j].id
          /\ \A r \in rows \ Range(res) : \A i \in DOMAIN res :
                SameDistance(q, r.embedding, res[i].embedding) => res[i].id < r.id

\* C9: a query with the exact vector of an inserted row returns that row at
\* distance 0, first unless a row with a smaller id is at distance 0 too; and
\* over cat, dog, rocket the query cat returns cat, then dog
C9_ExactMatchFirst ==
    LET p == "scripts_search"
        res == mem[p].result
        q == QueryVector(p)
        rows == Visible(TableOf(p))
    IN  Printing(p) =>
          /\ \A r \in rows :
                r.embedding = q =>
                  /\ r \in Range(res)
                  /\ ZeroDistance(q, r.embedding)
                  /\ (\A o \in rows : ZeroDistance(q, o.embedding) => o.id >= r.id)
                        => res[1] = r
          /\ ( /\ {<<r.id, r.content>> : r \in rows}
                    = {<<1, "cat">>, <<2, "dog">>, <<3, "rocket">>}
               /\ mem[p].query = "cat" )
                => res[1].content = "cat" /\ res[2].content = "dog"

(* --------------------------- batch atomicity --------------------------- *)
\* the rows of table t inserted by transaction x that other sessions see
VisibleOf(t, x) == {r \in Visible(t) : r.xmin = x}

\* the rows p's open transaction has inserted
Inserted(p) == IF priv[p].tab.exists THEN priv[p].tab.rows ELSE pend[p]

\* the number of INSERTs between two commits of p
BatchLen(p) ==
    CASE p = "embed_demo" -> Len(sentences)
      [] p = "generate" -> batch_size
      [] OTHER -> Len(mem[p].texts)

Writers == {"embed_demo", "seed", "scripts_seed", "generate"}

\* no row of an open or rolled-back transaction is visible
OnlyCommittedVisible ==
    \A t \in Tables : \A r \in Visible(t) : r.xmin \in committed

\* a commit that ends a batch makes every row of the batch visible
CommitExposesBatch ==
    \A p \in Writers :
        pc[p] = "commit" /\ pc'[p] \notin {"commit", "killed"} =>
            /\ \A x \in {xid[p]} : VisibleOf(TableOf(p), x)' = Inserted(p)
            /\ Cardinality(Inserted(p)) = BatchLen(p)

\* the visible rows of one transaction appear together and vanish together
AllOrNone ==
    \A t \in Tables : \A x \in 1..nextXid :
        VisibleOf(t, x)' # VisibleOf(t, x) =>
            VisibleOf(t, x) = {} \/ VisibleOf(t, x)' = {}

\* C1: between the first INSERT of a batch and its commit none of the batch's
\* rows is visible to another session, also when the process stops there;
\* the commit makes all of them visible; no state shows part of a batch
C1_BatchAtomic ==
    /\ []OnlyCommittedVisible
    /\ [][CommitExposesBatch /\ AllOrNone]_vars

\* generate_demo_embeddings.py has inserted its second batch and not yet
\* committed it: the first batch is visible, of the second nothing
C1_Witness ==
    /\ pc["generate"] = "commit"
    /\ mem["generate"].batch_num = 1
    /\ Cardinality(pend["generate"]) = batch_size
    /\ Cardinality(Visible("docs")) = batch_size

(* ------------------------ queries during inserts ----------------------- *)
Readers == {"search", "scripts_search"}

\* a statement's rows are rows committed at the instant it runs
ReadsOneSnapshot ==
    \A p \in Readers :
        mem'[p].result # mem[p].result =>
            Range(mem'[p].result) \subseteq Visible(TableOf(p))

\* C2: a search that runs while rows are being inserted ranks only rows whose
\* insert is committed: its rows are among those committed at the instant of
\* the statement, and none comes from an open or rolled-back transaction
C2_ReadCommitted ==
    /\ [](\A p \in Readers : \A r \in Range(mem[p].result) : r.xmin \in committed)
    /\ [][ReadsOneSnapshot]_vars

\* scripts/search.py holds a result while scripts/seed.py has inserted a row
\* and not committed it
C2_Witness ==
    /\ pc["scripts_search"] = "print"
    /\ mem["scripts_search"].result # << >>
    /\ pend["scripts_seed"] # {}

(* ------------------------------- ids ----------------------------------- *)
\* every row of table t: the committed ones and those of open transactions
AllRows(t) == Visible(t) \cup UNION {Inserted(p) : p \in {w \in Writers : TableOf(w) = t}}

\* C4 as claimed: the visible ids of a table are 1..n, n the number of
\* committed rows
C4_NoGaps ==
    \A t \in Tables : {r.id : r \in Visible(t)} = 1..Cardinality(Visible(t))

\* an INSERT's id is larger than every id the table's sequence has given out
IdsIncrease ==
    \A p \in Writers :
        \A r \in Inserted(p)' \ Inserted(p) : r.id > View(p).seq

\* C4 as amended: ids are strictly increasing in insertion order and never
\* reused, and they lie in 1..seq; an insert that is rolled back keeps its id
C4_IdsIncreasing ==
    /\ [](\A t \in Tables : \A r1, r2 \in AllRows(t) : r1.id = r2.id => r1 = r2)
    /\ [](\A t \in Tables : \A r \in Visible(t) : r.id \in 1..tables[t].seq)
    /\ [][IdsIncrease]_vars

\* a committed row whose id is larger than the number of committed rows
C4_Witness ==
    \E r \in Visible("demo") : r.id > Cardinality(Visible("demo"))

(* ---------------------- generate_demo_embeddings ----------------------- *)
\* after the table reset the number of visible rows does not decrease
CountGrows ==
    pc["generate"] \in {"texts", "insert", "commit", "success", "close"}
        /\ pc'["generate"] # "drop"
        => Cardinality(Visible("docs"))' >= Cardinality(Visible("docs"))

\* C10: the number of visible rows of docs is a multiple of batch_size, does
\* not decrease after the table reset, and is total_docs at the success
\* message, batches * batch_size being total_docs
C10_WholeBatches ==
    /\ [](Cardinality(Visible("docs")) % batch_size = 0)
    /\ [](pc["generate"] = "success" =>
            /\ Cardinality(Visible("docs")) = total_docs
            /\ batches * batch_size = total_docs)
    /\ [][CountGrows]_vars

C10_Witness ==
    /\ pc["generate"] = "success"
    /\ Cardinality(Visible("docs")) = total_docs
    /\ total_docs > batch_size

(* ------------------------------ demo.py -------------------------------- *)
\* p's statement has run: the step is p's own and p was not killed
Ran(p, at) == pc[p] = at /\ pc'[p] \notin {at, "killed"}

\* C7: a search issued while no row is committed, also before any setup or
\* seed command has run, returns an empty result and is not an error
C7_EmptySearchNoError ==
    [][\A p \in Readers :
          (\A t \in Tables : Visible(t) = {}) /\ Ran(p, "execute") =>
              pc'[p] = "print" /\ mem'[p].result = << >>]_vars

\* the rows setup and seed have committed
CommittedByDemo == Visible("documents") \cup Visible("demo")

\* C8: the search command ranks every row a completed setup or seed command
\* has committed: it reads the store they wrote, and returns all rows when
\* there are at most 5
C8_SearchReadsSetupAndSeed ==
    [][CommittedByDemo # {} /\ Ran("scripts_search", "execute") =>
          /\ pc'["scripts_search"] = "print"
          /\ mem'["scripts_search"].result
                \in OrderByLimit(CommittedByDemo, QueryVector("scripts_search"), Limit)
          /\ Cardinality(CommittedByDemo) <= Limit
                => Range(mem'["scripts_search"].result) = CommittedByDemo]_vars

(* ------------------------- dimension mismatch -------------------------- *)
\* a table left in the database by an earlier setup with another model
Existing(d, filled) ==
    [exists |-> TRUE, dim |-> d, seq |-> IF filled THEN 1 ELSE 0,
     rows |-> IF filled
              THEN {[id |-> 1, content |-> "lorem",
                     embedding |-> [len |-> d, head |-> Components("lorem")],
                     xmin |-> 1]}
              ELSE {}]

\* a database in which documents and demo exist, with either dimension
InitDim ==
    /\ \E d1, d2 \in {MiniLMDim, BgeDim}, f1, f2 \in BOOLEAN :
          tables = [EmptyDb EXCEPT !["documents"] = Existing(d1, f1),
                                   !["demo"] = Existing(d2, f2)]
    /\ nextXid = 2
    /\ committed = {1}
    /\ InitLocal

NextDim ==
    \/ Seed_Start
    \/ Search_Start
    \/ ScriptsSeed_Start
    \/ ScriptsSearch_Start
    \/ Seed
    \/ Search
    \/ ScriptsSeed
    \/ ScriptsSearch
    \/ \E p \in {"seed", "search", "scripts_seed", "scripts_search"} : Kill(p)

SpecDim == InitDim /\ [][NextDim]_vars

\* the vector of p's next INSERT
InsertVector(p) ==
    encode(ModelOf(p), mem[p].texts[IF p = "seed" THEN mem[p].idx ELSE 1])

VisibleUnchanged == \A t \in Tables : Visible(t)' = Visible(t)

\* an INSERT of a vector of the wrong length fails with a dimension error;
\* nothing of its batch is or becomes visible
InsertRejected ==
    \A p \in {"seed", "scripts_seed"} :
        /\ Ran(p, "insert") \/ (pc[p] = "insert" /\ mem'[p] # mem[p])
        /\ pc'[p] # "killed"
        /\ View(p).exists
        /\ InsertVector(p).len # View(p).dim
        => /\ pc'[p] = "failed"
           /\ err'[p] = "DimensionMismatch"
           /\ pend'[p] = {}
           /\ VisibleUnchanged

\* a query with a vector of the wrong length fails with a dimension error
QueryRejected ==
    \A p \in Readers :
        /\ Ran(p, "execute")
        /\ View(p).exists
        /\ QueryVector(p).len # View(p).dim
        => /\ pc'[p] = "failed"
           /\ err'[p] = "DimensionMismatch"
           /\ VisibleUnchanged

\* the same, when the table holds a row; on an empty table the query
\* returns the empty result
QueryRejectedUnlessEmpty ==
    \A p \in Readers :
        /\ Ran(p, "execute")
        /\ View(p).exists
        /\ QueryVector(p).len # View(p).dim
        => /\ IF Visible(TableOf(p)) # {}
              THEN pc'[p] = "failed" /\ err'[p] = "DimensionMismatch"
              ELSE pc'[p] = "print" /\ mem'[p].result = << >> /\ err'[p] = "none"
           /\ VisibleUnchanged

====
